---- MODULE Spec2Model ----
(***************************************************************************)
(* Model of zvmsdk/volumeop.py: the FCP pool manager (FCPManager) and the  *)
(* attach / detach orchestration of FCPVolumeManager.                      *)
(*                                                                         *)
(* Every request runs in a worker thread; a thread's position in its       *)
(* handler is th[t].pc and the handler's local variables are the other     *)
(* fields of th[t].  The persisted store (zvmsdk/database.py,              *)
(* FCPDbOperator) and the hypervisor's dedication state are shared.        *)
(***************************************************************************)
EXTENDS Integers, Sequences, FiniteSets, TLC

VARIABLES
    db,                 \* persisted FCP records, by device address
    dedicated,          \* hypervisor: the guest each device is dedicated to
    fcp_pool,           \* FCPManager._fcp_pool
    fcp_path_mapping,   \* FCPManager._fcp_path_mapping
    th,                 \* per thread: handler position and local variables
    scope,              \* the requests the environment makes (fixed)
    conf,               \* CONF.volume of the running process
    expansion,          \* a call of _expand_fcp_list: its string and result
    lock                \* FCPVolumeManager._lock, the manager's RLock

vars == <<db, dedicated, fcp_pool, fcp_path_mapping, th, scope, conf,
          expansion, lock>>

\* the state that the attach, detach and connector handlers never touch
aside == <<expansion, lock>>

(***************************************************************************)
(* Bounds                                                                  *)
(***************************************************************************)
\* largest connection count a device reaches (requests are refused beyond it)
MaxConn == 2
\* longest device list of a request
MaxLen == 2

\* the device addresses, in the store's ORDER BY fcp_id order
DeviceOrder == <<"fa00", "fa01", "fa02", "fb00", "fb01", "fb02">>
Devices == {DeviceOrder[k] : k \in DOMAIN DeviceOrder}
\* the devices of the two-device host
BaseDevices == {"fa00", "fb00"}
Assigners == {"UA", "UB"}
Threads == {1, 2}

\* the path indices, in ascending order
PathOrder == <<0, 1>>

NoAssigner == ""
NoRec == [exists |-> FALSE]
Absent == "absent"

\* CONF.volume.fcp_list = "fa00;fb00", expanded: path index -> device set
ConfMapping == [p \in {0, 1} |-> IF p = 0 THEN {"fa00"} ELSE {"fb00"}]
EmptyMapping == [p \in {} |-> {}]
\* "fb00;fa00": the two paths exchanged
SwappedMapping == [p \in {0, 1} |-> IF p = 0 THEN {"fb00"} ELSE {"fa00"}]
\* "fa00": one path, fb00 not configured
SingleMapping == [p \in {0} |-> {"fa00"}]
\* "fa00;fa00": the same address in two paths
OverlapMapping == [p \in {0, 1} |-> {"fa00"}]
\* "fa00-fa02;fb00-fb02": two paths of three devices
PairMapping ==
    [p \in {0, 1} |-> IF p = 0 THEN {"fa00", "fa01", "fa02"}
                                ELSE {"fb00", "fb01", "fb02"}]

\* CONF.volume: the expanded fcp_list ('' is the empty mapping) and the
\* pairing option
Conf(mapping, same_index) ==
    [fcp_list |-> mapping, get_fcp_pair_with_same_index |-> same_index]
DefaultConf == Conf(ConfMapping, FALSE)

\* an inventory answer: the status of every device the host reports
View(S, status) == [f \in Devices |-> IF f \in S THEN status[f] ELSE "gone"]

\* what the inventory query may report for each device of the two-device host
LiveViews ==
    {View(BaseDevices, st) : st \in [BaseDevices -> {"free", "active", "gone"}]}

\* device lists of requests: 1..MaxLen addresses, repetitions allowed
DeviceLists == UNION {[1..n -> BaseDevices] : n \in 1..MaxLen}

RECURSIVE Mult(_, _)
\* number of occurrences of device f in the list s
Mult(s, f) ==
    IF s = <<>> THEN 0
    ELSE (IF Head(s) = f THEN 1 ELSE 0) + Mult(Tail(s), f)

Range(s) == {s[k] : k \in DOMAIN s}

\* the devices of S as a list in address order
SortedList(S) == SelectSeq(DeviceOrder, LAMBDA f : f \in S)

(***************************************************************************)
(* The persisted store (FCPDbOperator): one record per device address.     *)
(***************************************************************************)
Exists(d, f) == d[f] # NoRec

NewRec(path) ==
    [exists |-> TRUE, assigner |-> NoAssigner, reserved |-> FALSE,
     connections |-> 0, path |-> path]

\* db.new(fcp, path)
DbNew(d, f, path) == [d EXCEPT ![f] = NewRec(path)]

\* db.delete(fcp)
DbDelete(d, f) == [d EXCEPT ![f] = NoRec]

\* db.is_reserved(fcp)
DbIsReserved(d, f) == Exists(d, f) /\ d[f].reserved

\* db.reserve(fcp) / db.unreserve(fcp): an UPDATE, no effect without a record
DbSetReserved(d, f, r) ==
    IF Exists(d, f) THEN [d EXCEPT ![f].reserved = r] ELSE d

\* db.assign(fcp, assigner_id, update_connections)
DbAssign(d, f, a, update_connections) ==
    IF ~Exists(d, f) THEN d
    ELSE IF update_connections
         THEN [d EXCEPT ![f].assigner = a, ![f].connections = 1]
         ELSE [d EXCEPT ![f].assigner = a]

\* db.update_path_of_fcp(fcp, path)
DbUpdatePath(d, f, path) ==
    IF Exists(d, f) THEN [d EXCEPT ![f].path = path] ELSE d

\* db.get_connections_from_fcp(fcp) raises SDKObjectNotExistError without a record
DbConnections(d, f) == d[f].connections

\* db.increase_usage(fcp): raises without a record
DbIncreaseOk(d, f) == Exists(d, f)
DbIncrease(d, f) == [d EXCEPT ![f].connections = @ + 1]

\* db.increase_usage_by_assigner(fcp, assigner_id): raises when the assigner
\* has no record of the device
DbIncreaseByAssignerOk(d, f, a) == Exists(d, f) /\ d[f].assigner = a

\* db.decrease_usage(fcp): raises SDKObjectNotExistError without a record or
\* when the count is already 0; otherwise returns the new count
DbDecreaseOk(d, f) == Exists(d, f) /\ d[f].connections > 0
DbDecrease(d, f) == [d EXCEPT ![f].connections = @ - 1]

\* db.get_allocated_fcps_from_assigner(assigner_id), ordered by address
DbAllocated(d, a) ==
    {f \in Devices : Exists(d, f) /\ d[f].assigner = a
                     /\ (d[f].connections # 0 \/ d[f].reserved)}

\* db.get_reserved_fcps_from_assigner(assigner_id), ordered by address
DbReserved(d, a) ==
    {f \in Devices : Exists(d, f) /\ d[f].assigner = a /\ d[f].reserved}

\* free devices of one path: no connection and no reservation
DbFreeOfPath(d, p) ==
    {f \in Devices : Exists(d, f) /\ d[f].path = p
                     /\ d[f].connections = 0 /\ ~d[f].reserved}

\* db.get_path_count(): the distinct path indices of the records
DbPaths(d) == {d[f].path : f \in {g \in Devices : Exists(d, g)}}

(***************************************************************************)
(* FCPManager: pool initialisation and synchronisation with the store.     *)
(***************************************************************************)
\* a variant of Configured that takes every address for configured
ConfiguredAny(mapping, f) == TRUE

\* _init_fcp_pool: the address is in complete_fcp_set, the union of the paths
Configured(mapping, f) == \E p \in DOMAIN mapping : f \in mapping[p]

\* _init_fcp_pool: every device the inventory reports (free or active) and
\* the configuration names is stored in the pool under its address; the
\* other entries of the pool are left as they are
InitFcpPool(pool, mapping, live) ==
    [f \in Devices |->
        IF live[f] # "gone" /\ Configured(mapping, f)
        THEN live[f]
        ELSE pool[f]]

\* a variant of ReportOrphanDeletes that deletes every orphan
ReportOrphanDeletesAll(d, f) == TRUE

\* _report_orphan_fcp: a record is deleted unless it is reserved
ReportOrphanDeletes(d, f) == ~DbIsReserved(d, f)

\* _sync_db_fcp_list, first loop: records whose device is not in the pool
SyncOrphans(d, pool) ==
    [f \in Devices |->
        IF Exists(d, f) /\ pool[f] = Absent /\ ReportOrphanDeletes(d, f)
        THEN NoRec
        ELSE d[f]]

\* a variant of AddFcpCreates that creates a record whatever the status is
AddFcpCreatesAlways(pool, f) == TRUE

\* _add_fcp: a record is created only for a device whose status is free
AddFcpCreates(pool, f) == pool[f] = "free"

\* a variant of PathChanged that never finds a path changed
PathNeverChanged(old_path, path) == FALSE

\* _sync_db_fcp_list: the path of a record is written when it is not the
\* path of the mapping
PathChanged(old_path, path) == old_path # path

\* _sync_db_fcp_list, second loop, one path of the mapping: a record is
\* created for a device of the pool that has none, and the path of an
\* existing record is brought up to date
SyncPath(d, pool, mapping, p) ==
    [f \in Devices |->
        IF f \in mapping[p] /\ pool[f] # Absent
        THEN IF ~Exists(d, f)
             THEN (IF AddFcpCreates(pool, f) THEN NewRec(p) ELSE NoRec)
             ELSE IF PathChanged(d[f].path, p)
                  THEN DbUpdatePath(d, f, p)[f]
                  ELSE d[f]
        ELSE d[f]]

\* a write to the store: the operation, the device and the path written
Write(op, f, p) == [op |-> op, fcp |-> f, path |-> p]

\* the writes SyncPath makes
PathWrites(d, pool, mapping, p) ==
    {Write("new", f, p) :
        f \in {g \in mapping[p] : pool[g] # Absent /\ ~Exists(d, g)
                                  /\ AddFcpCreates(pool, g)}}
    \cup
    {Write("update_path_of_fcp", f, p) :
        f \in {g \in mapping[p] : pool[g] # Absent /\ Exists(d, g)
                                  /\ PathChanged(d[g].path, p)}}

RECURSIVE SyncPathsFrom(_, _, _, _)
\* the second loop from the k-th path on, the paths taken in ascending order
SyncPathsFrom(d, pool, mapping, k) ==
    IF k > Len(PathOrder) THEN d
    ELSE IF PathOrder[k] \in DOMAIN mapping
         THEN SyncPathsFrom(SyncPath(d, pool, mapping, PathOrder[k]),
                            pool, mapping, k + 1)
         ELSE SyncPathsFrom(d, pool, mapping, k + 1)

RECURSIVE PathWritesFrom(_, _, _, _)
PathWritesFrom(d, pool, mapping, k) ==
    IF k > Len(PathOrder) THEN {}
    ELSE IF PathOrder[k] \in DOMAIN mapping
         THEN PathWrites(d, pool, mapping, PathOrder[k])
              \cup PathWritesFrom(SyncPath(d, pool, mapping, PathOrder[k]),
                                  pool, mapping, k + 1)
         ELSE PathWritesFrom(d, pool, mapping, k + 1)

\* _sync_db_fcp_list, second loop: devices of the mapping that are in the pool
SyncPaths(d, pool, mapping) == SyncPathsFrom(d, pool, mapping, 1)

SyncDbFcpList(d, pool, mapping) == SyncPaths(SyncOrphans(d, pool), pool, mapping)

\* the writes of one run of _sync_db_fcp_list: the orphans deleted, the
\* records created and the paths updated
SyncWrites(d, pool, mapping) ==
    {Write("delete", f, d[f].path) :
        f \in {g \in Devices : Exists(d, g) /\ pool[g] = Absent
                               /\ ReportOrphanDeletes(d, g)}}
    \cup PathWritesFrom(SyncOrphans(d, pool), pool, mapping, 1)

\* init_fcp returns at once when CONF.volume.fcp_list is empty
VolumeDisabled(fcp_list) == fcp_list = EmptyMapping

\* init_fcp: the pool and the store after one synchronisation pass that
\* sees the inventory `live`
PoolAfterInit(pool, fcp_list, live) ==
    IF VolumeDisabled(fcp_list) THEN pool
    ELSE InitFcpPool(pool, fcp_list, live)

DbAfterInit(d, pool, fcp_list, live) ==
    IF VolumeDisabled(fcp_list) THEN d
    ELSE SyncDbFcpList(d, InitFcpPool(pool, fcp_list, live), fcp_list)

InitFcp(live) ==
    /\ fcp_path_mapping' = IF VolumeDisabled(conf.fcp_list)
                           THEN fcp_path_mapping
                           ELSE conf.fcp_list
    /\ fcp_pool' = PoolAfterInit(fcp_pool, conf.fcp_list, live)
    /\ db' = DbAfterInit(db, fcp_pool, conf.fcp_list, live)

(***************************************************************************)
(* Threads                                                                 *)
(***************************************************************************)
EmptyDb == [f \in Devices |-> NoRec]
NoneDedicated == [f \in Devices |-> NoAssigner]

IdleThread ==
    [pc |-> "idle", op |-> "none", assigner |-> NoAssigner, fcps |-> <<>>,
     i |-> 0, is_root_volume |-> FALSE, update_connections_only |-> FALSE,
     reserve |-> FALSE, connections |-> 0,
     fcp_status |-> [f \in Devices |-> FALSE],
     fcp_connections |-> [f \in Devices |-> 0],
     need_rollback |-> [f \in Devices |-> TRUE],
     wwpns |-> <<>>, phy_virt_wwpn_map |-> <<>>, userid_exist |-> "unchecked",
     registered |-> <<>>,
     result |-> "none", error |-> "none",
     calls |-> <<>>, pre |-> EmptyDb, preDedicated |-> NoneDedicated]

InFlight(u) == th[u].pc \notin {"idle", "done"}

\* a call to the transport, as the request's log records it: the kind, the
\* device, the outcome and (for undedicate) the count the decrement returned
Call(k, f, r, n) == [kind |-> k, fcp |-> f, outcome |-> r, count |-> n]

ConnOrZero(d, f) == IF Exists(d, f) THEN d[f].connections ELSE 0

RECURSIVE PendingOf(_, _)
\* the increments the requests in flight on the threads U may still make to f
PendingOf(U, f) ==
    IF U = {} THEN 0
    ELSE LET u == CHOOSE x \in U : TRUE
         IN  (IF InFlight(u) /\ th[u].op \in {"attach", "detach"}
              THEN Mult(th[u].fcps, f) ELSE 0) + PendingOf(U \ {u}, f)

\* the request keeps every count within MaxConn
WithinBound(fl) ==
    \A f \in Range(fl) :
        ConnOrZero(db, f) + Mult(fl, f) + PendingOf(Threads, f) <= MaxConn

Update(t, new) == th' = [th EXCEPT ![t] = new]

Finish(t, cur, result, error) ==
    Update(t, [cur EXCEPT !.pc = "done", !.result = result, !.error = error])

(***************************************************************************)
(* The hypervisor (smtclient): dedicate and undedicate                     *)
(***************************************************************************)
\* a variant of DedicateOutcomes for a dedicate_device that never returns
DedicateNeverReturns(f) == {}

\* dedicate_device succeeds only for a device nobody holds; it may fail
DedicateOutcomes(f) ==
    (IF dedicated[f] = NoAssigner THEN {"ok"} ELSE {}) \cup {"error"}

\* undedicate_device: "already" is the answer rc 404 (or rc 204, rs 8) for a
\* device the guest does not hold; "error" is any other failure
UndedicateOutcomes(f, a) ==
    (IF dedicated[f] = a THEN {"ok"} ELSE {"already"}) \cup {"error"}

AfterUndedicate(ded, f, outcome) ==
    IF outcome = "ok" THEN [ded EXCEPT ![f] = NoAssigner] ELSE ded


(***************************************************************************)
(* FCPVolumeManager.attach / _attach                                       *)
(***************************************************************************)
\* a variant of IsFirstUse that also takes a device with one connection for new
IsFirstUseUpToOne(connections) == connections <= 1

\* add_fcp_for_assigner: the device is new when the count read is 0
IsFirstUse(connections) == connections = 0

\* a variant of RootReturns that never ends the attach early
RootNeverReturns(is_root_volume) == FALSE

\* _attach: for a root volume the usage records are all there is to do
RootReturns(is_root_volume) == is_root_volume

\* a variant of NeedsDedicate that dedicates every device of the request
NeedsDedicateAlways(status, f) == TRUE

\* _attach: only the devices first attached are dedicated
NeedsDedicate(status, f) == status[f]

\* _rollback_dedicated_fcp: undedicate when the decrement returned 0
RollbackUndedicates(connections) == connections = 0

\* a variant of RollbackUnreserves that leaves every reservation in place
RollbackUnreservesNever(connections) == FALSE

\* a variant of RollbackUnreserves that unreserves whatever the count is
RollbackUnreservesAlways(connections) == TRUE

\* _rollback_dedicated_fcp, last pass: unreserve a device without connections
RollbackUnreserves(connections) == connections = 0

\* the position after device i of the list: the next device, or the step
\* `after` once the list is through
Advance(cur, after) ==
    IF cur.i < Len(cur.fcps)
    THEN [cur EXCEPT !.i = @ + 1]
    ELSE [cur EXCEPT !.i = 1, !.pc = after]

\* a variant of UnknownGuestRefused that lets every attach go on
UnknownGuestRefusedNever(is_root_volume, userid_exist) == FALSE

\* attach: a request that is not for a root volume and names a guest that
\* check_userid_exist does not find is refused
UnknownGuestRefused(is_root_volume, userid_exist) ==
    ~is_root_volume /\ ~userid_exist

\* attach: an unknown guest is refused (unless the volume is a root volume,
\* and then the guest is not looked up); otherwise _attach starts with
\* init_fcp
attach(t) ==
    /\ t \in scope.workers
    /\ th[t].pc = "idle"
    /\ \E a \in scope.guests, fl \in scope.lists, root \in scope.flags,
          userExists \in BOOLEAN, live \in scope.views :
          LET req == [IdleThread EXCEPT !.op = "attach", !.assigner = a,
                         !.fcps = fl, !.is_root_volume = root, !.i = 1,
                         !.userid_exist = IF root THEN "unchecked"
                                          ELSE IF userExists THEN "yes"
                                          ELSE "no",
                         !.pre = db, !.preDedicated = dedicated]
          IN  /\ WithinBound(fl)
              /\ IF UnknownGuestRefused(root, userExists)
                 THEN /\ Finish(t, req, "raised", "notfound")
                      /\ UNCHANGED <<db, fcp_pool, fcp_path_mapping>>
                 ELSE /\ InitFcp(live)
                      /\ Update(t, [req EXCEPT !.pc = "add_read"])
    /\ UNCHANGED <<dedicated, scope, conf, aside>>

\* add_fcp_for_assigner, the read: db.get_connections_from_fcp
add_read(t) ==
    /\ th[t].pc = "add_read"
    /\ LET cur == th[t]
           f == cur.fcps[cur.i]
       IN  IF Exists(db, f)
           THEN Update(t, [cur EXCEPT !.connections = DbConnections(db, f),
                                      !.pc = "add_write"])
           ELSE Finish(t, cur, "raised", "usage")
    /\ UNCHANGED <<db, dedicated, fcp_pool, fcp_path_mapping, scope, conf, aside>>

\* add_fcp_for_assigner, the write: assign or increase_usage_by_assigner;
\* then the next device, or the root-volume return, or the dedicate loop
add_write(t) ==
    /\ th[t].pc = "add_write"
    /\ LET cur == th[t]
           f == cur.fcps[cur.i]
           new == IsFirstUse(cur.connections)
           nxt == [cur EXCEPT !.fcp_status[f] = new, !.pc = "add_read",
                              !.registered =
                                  Append(@, [fcp |-> f, new |-> new])]
           ok == /\ IF cur.i < Len(cur.fcps)
                    THEN Update(t, [nxt EXCEPT !.i = @ + 1])
                    ELSE IF RootReturns(cur.is_root_volume)
                         THEN Finish(t, nxt, "ok", "none")
                         ELSE Update(t, [nxt EXCEPT !.i = 1, !.pc = "dedicate"])
       IN  IF new
           THEN /\ db' = DbAssign(db, f, cur.assigner, TRUE)
                /\ ok
           ELSE IF DbIncreaseByAssignerOk(db, f, cur.assigner)
                THEN /\ db' = DbIncrease(db, f)
                     /\ ok
                ELSE /\ db' = db
                     /\ Finish(t, cur, "raised", "usage")
    /\ UNCHANGED <<dedicated, fcp_pool, fcp_path_mapping, scope, conf, aside>>

\* _attach, the dedicate loop: one device per step; a failure starts the
\* rollback
dedicate_step(t) ==
    /\ th[t].pc = "dedicate"
    /\ LET cur == th[t]
           f == cur.fcps[cur.i]
       IN  IF NeedsDedicate(cur.fcp_status, f)
           THEN \E outcome \in DedicateOutcomes(f) :
                  LET logged == [cur EXCEPT !.calls =
                                   Append(@, Call("dedicate", f, outcome, 0))]
                  IN  IF outcome = "ok"
                      THEN /\ dedicated' = [dedicated EXCEPT ![f] = cur.assigner]
                           /\ Update(t, Advance(logged, "config"))
                      ELSE /\ dedicated' = dedicated
                           /\ Update(t, [logged EXCEPT !.i = 1, !.pc = "rb_dec",
                                                       !.error = "dedicate"])
           ELSE /\ dedicated' = dedicated
                /\ Update(t, Advance(cur, "config"))
    /\ UNCHANGED <<db, fcp_pool, fcp_path_mapping, scope, conf, aside>>

\* _attach: _add_disks configures the guest for the whole list; a failure
\* starts the rollback
config_step(t) ==
    /\ th[t].pc = "config"
    /\ \E outcome \in {"ok", "error"} :
          LET cur == th[t]
              logged == [cur EXCEPT !.calls =
                           Append(@, Call("config", "", outcome, 0))]
          IN  IF outcome = "ok"
              THEN Finish(t, logged, "ok", "none")
              ELSE Update(t, [logged EXCEPT !.i = 1, !.pc = "rb_dec",
                                            !.error = "config"])
    /\ UNCHANGED <<db, dedicated, fcp_pool, fcp_path_mapping, scope, conf, aside>>

\* _rollback_dedicated_fcp, first loop: decrease the usage and undedicate at
\* zero, every error ignored
rollback_dec(t) ==
    /\ th[t].pc = "rb_dec"
    /\ LET cur == th[t]
           f == cur.fcps[cur.i]
       IN  IF DbDecreaseOk(db, f)
           THEN /\ db' = DbDecrease(db, f)
                /\ IF RollbackUndedicates(DbConnections(db', f))
                   THEN \E outcome \in UndedicateOutcomes(f, cur.assigner) :
                          /\ dedicated' = AfterUndedicate(dedicated, f, outcome)
                          /\ Update(t, Advance(
                                [cur EXCEPT !.calls = Append(@,
                                    Call("undedicate", f, outcome,
                                         DbConnections(db', f)))],
                                "rb_unres"))
                   ELSE /\ dedicated' = dedicated
                        /\ Update(t, Advance(cur, "rb_unres"))
           ELSE /\ db' = db
                /\ dedicated' = dedicated
                /\ Update(t, Advance(cur, "rb_unres"))
    /\ UNCHANGED <<fcp_pool, fcp_path_mapping, scope, conf, aside>>

\* _rollback_dedicated_fcp, second loop (outside ignore_errors), then the
\* raise of _attach with the message of the original error
rollback_unreserve(t) ==
    /\ th[t].pc = "rb_unres"
    /\ LET cur == th[t]
           f == cur.fcps[cur.i]
           nxt == IF cur.i < Len(cur.fcps)
                  THEN [cur EXCEPT !.i = @ + 1]
                  ELSE [cur EXCEPT !.pc = "done", !.result = "raised"]
       IN  IF ~Exists(db, f)
           THEN /\ db' = db
                /\ Finish(t, cur, "raised", "rollback")
           ELSE /\ db' = IF RollbackUnreserves(DbConnections(db, f))
                         THEN DbSetReserved(db, f, FALSE)
                         ELSE db
                /\ Update(t, nxt)
    /\ UNCHANGED <<dedicated, fcp_pool, fcp_path_mapping, scope, conf, aside>>


(***************************************************************************)
(* FCPVolumeManager.detach / _detach                                       *)
(***************************************************************************)
\* _detach: root volumes and connections-only requests end after the
\* usage records
BookkeepingOnly(is_root_volume, update_connections_only) ==
    is_root_volume \/ update_connections_only

\* a variant of DetachUndedicates that also undedicates at count 1
DetachUndedicatesUpToOne(fcp_connections, f) == fcp_connections[f] <= 1

\* _detach: a device is undedicated when its count after the decrement is 0
DetachUndedicates(fcp_connections, f) == fcp_connections[f] = 0

\* _detach: the answers of undedicate that are ignored (rc 404, or rc 204
\* with rs 8)
AlreadyUndedicated(outcome) == outcome = "already"

\* a variant of NeedsRollback that restores the usage of every device
NeedsRollbackAlways(need_rollback, f) == TRUE

\* a variant of NeedsRollback that restores no usage
NeedsRollbackNever(need_rollback, f) == FALSE

\* _detach, rollback: the usage of a device is restored when need_rollback
NeedsRollback(need_rollback, f) == need_rollback[f]

\* increase_fcp_usage: assign when the count read is 0, else increase_usage
IncreaseFcpUsage(d, f, a) ==
    IF DbConnections(d, f) = 0 THEN DbAssign(d, f, a, TRUE) ELSE DbIncrease(d, f)

\* a variant of AbsentGuestReturns that goes on for an absent guest
AbsentGuestReturnsNever(userid_exist) == FALSE

\* _detach: when check_userid_exist finds no guest, the detach stops after
\* the usage records
AbsentGuestReturns(userid_exist) == ~userid_exist

detach(t) ==
    /\ t \in scope.workers
    /\ th[t].pc = "idle"
    /\ \E a \in scope.guests, fl \in scope.lists, root \in scope.flags,
          only \in scope.flags :
          Update(t, [IdleThread EXCEPT !.op = "detach", !.assigner = a,
                        !.fcps = fl, !.is_root_volume = root,
                        !.update_connections_only = only, !.i = 1,
                        !.pc = "det_dec", !.pre = db,
                        !.preDedicated = dedicated])
    /\ UNCHANGED <<db, dedicated, fcp_pool, fcp_path_mapping, scope, conf, aside>>

\* _detach, first loop: decrease the usage of one device; after the last
\* one the returns for root volumes, connections-only and unknown guests
detach_decrease(t) ==
    /\ th[t].pc = "det_dec"
    /\ \E userExists \in BOOLEAN :
          LET cur == th[t]
              f == cur.fcps[cur.i]
              ok == DbDecreaseOk(db, f)
              d2 == IF ok THEN DbDecrease(db, f) ELSE db
              connections == IF ok THEN DbConnections(d2, f) ELSE 0
              nxt == [cur EXCEPT !.need_rollback[f] = ok,
                                 !.connections = connections,
                                 !.fcp_connections[f] = connections]
          IN  /\ db' = d2
              /\ IF cur.i < Len(cur.fcps)
                 THEN Update(t, [nxt EXCEPT !.i = @ + 1])
                 ELSE IF BookkeepingOnly(cur.is_root_volume,
                                         cur.update_connections_only)
                      THEN Finish(t, nxt, "ok", "none")
                      ELSE LET checked == [nxt EXCEPT !.userid_exist =
                                              IF userExists THEN "yes"
                                              ELSE "no"]
                           IN  IF AbsentGuestReturns(userExists)
                               THEN Finish(t, checked, "ok", "none")
                               ELSE Update(t, [checked EXCEPT !.i = 1,
                                                  !.pc = "det_remove"])
    /\ UNCHANGED <<dedicated, fcp_pool, fcp_path_mapping, scope, conf, aside>>

\* _detach: _remove_disks deconfigures the guest for the whole list
detach_remove(t) ==
    /\ th[t].pc = "det_remove"
    /\ \E outcome \in {"ok", "error"} :
          LET cur == th[t]
              logged == [cur EXCEPT !.calls =
                           Append(@, Call("deconfig", "", outcome, 0))]
          IN  IF outcome = "ok"
              THEN Update(t, [logged EXCEPT !.i = 1, !.pc = "det_unded"])
              ELSE Update(t, [logged EXCEPT !.i = 1, !.pc = "det_rb",
                                            !.error = "deconfig"])
    /\ UNCHANGED <<db, dedicated, fcp_pool, fcp_path_mapping, scope, conf, aside>>

\* _detach, the undedicate loop, inside the try block: an "already
\* undedicated" answer is ignored and ends the block; any other error starts
\* the rollback
detach_undedicate(t) ==
    /\ th[t].pc = "det_unded"
    /\ LET cur == th[t]
           f == cur.fcps[cur.i]
       IN  IF DetachUndedicates(cur.fcp_connections, f)
           THEN \E outcome \in UndedicateOutcomes(f, cur.assigner) :
                  LET logged == [cur EXCEPT !.calls = Append(@,
                                    Call("undedicate", f, outcome,
                                         cur.fcp_connections[f]))]
                  IN  /\ dedicated' = AfterUndedicate(dedicated, f, outcome)
                      /\ IF outcome = "ok"
                         THEN IF cur.i < Len(cur.fcps)
                              THEN Update(t, [logged EXCEPT !.i = @ + 1])
                              ELSE Finish(t, logged, "ok", "none")
                         ELSE IF AlreadyUndedicated(outcome)
                              THEN Finish(t, logged, "ok", "none")
                              ELSE Update(t, [logged EXCEPT !.i = 1,
                                                 !.pc = "det_rb",
                                                 !.error = "undedicate"])
           ELSE /\ dedicated' = dedicated
                /\ IF cur.i < Len(cur.fcps)
                   THEN Update(t, [cur EXCEPT !.i = @ + 1])
                   ELSE Finish(t, cur, "ok", "none")
    /\ UNCHANGED <<db, fcp_pool, fcp_path_mapping, scope, conf, aside>>

\* _detach, rollback loop: increase_fcp_usage for every device that needs it
detach_rollback(t) ==
    /\ th[t].pc = "det_rb"
    /\ LET cur == th[t]
           f == cur.fcps[cur.i]
       IN  IF NeedsRollback(cur.need_rollback, f)
           THEN IF Exists(db, f)
                THEN /\ db' = IncreaseFcpUsage(db, f, cur.assigner)
                     /\ Update(t, Advance(cur, "det_readd"))
                ELSE /\ db' = db
                     /\ Finish(t, cur, "raised", "rollback")
           ELSE /\ db' = db
                /\ Update(t, Advance(cur, "det_readd"))
    /\ UNCHANGED <<dedicated, fcp_pool, fcp_path_mapping, scope, conf, aside>>

\* _detach, end of the rollback: _add_disks with its errors ignored, then the
\* raise
detach_readd(t) ==
    /\ th[t].pc = "det_readd"
    /\ \E outcome \in {"ok", "error"} :
          LET cur == th[t]
          IN  Finish(t, [cur EXCEPT !.calls =
                            Append(@, Call("config", "", outcome, 0))],
                     "raised", cur.error)
    /\ UNCHANGED <<db, dedicated, fcp_pool, fcp_path_mapping, scope, conf, aside>>

(***************************************************************************)
(* get_volume_connector and FCPManager.get_available_fcp                   *)
(***************************************************************************)
\* db.get_fcp_pair(): one free device of every path, in path order; the empty
\* list when a path has none
FcpPairs(d) ==
    LET paths == SelectSeq(PathOrder, LAMBDA p : p \in DbPaths(d))
        all == {s \in [1..Len(paths) -> Devices] :
                   \A k \in 1..Len(paths) : s[k] \in DbFreeOfPath(d, paths[k])}
    IN  IF all = {} THEN {<<>>} ELSE all

\* the records of one path
RecordsOfPath(d, p) == {f \in Devices : Exists(d, f) /\ d[f].path = p}

\* the position of device f among the devices S, in address order
PositionIn(S, f) ==
    LET at(g) == CHOOSE k \in DOMAIN DeviceOrder : DeviceOrder[k] = g
    IN  Cardinality({g \in S : at(g) < at(f)})

\* db.get_fcp_pair_with_same_index(): one free device of every path, all at
\* the same position within their paths; the empty list when there is no
\* such combination
FcpPairsWithSameIndex(d) ==
    LET paths == SelectSeq(PathOrder, LAMBDA p : p \in DbPaths(d))
        all == {s \in [1..Len(paths) -> Devices] :
                   \A k \in 1..Len(paths) :
                       /\ s[k] \in DbFreeOfPath(d, paths[k])
                       /\ PositionIn(RecordsOfPath(d, paths[k]), s[k])
                             = PositionIn(RecordsOfPath(d, paths[1]), s[1])}
    IN  IF all = {} THEN {<<>>} ELSE all

\* a variant of NotReserving that takes every lookup for a reserving one
NotReservingNever(reserve) == FALSE

\* get_available_fcp: without reserve the reserved devices are returned
NotReserving(reserve) == ~reserve

\* a variant of UsesSameIndex that always asks for pairs of any positions
UsesSameIndexNever(same_index) == FALSE

\* get_available_fcp: CONF.volume.get_fcp_pair_with_same_index selects the
\* pairing query
UsesSameIndex(same_index) == same_index

\* get_available_fcp: the lists it may return, each with the mark of a new
\* allocation (whose devices are then assigned to the guest)
AvailableFcp(d, a, reserve, same_index) ==
    IF NotReserving(reserve)
    THEN {[fcps |-> SortedList(DbReserved(d, a)), fresh |-> FALSE]}
    ELSE IF DbAllocated(d, a) = {}
         THEN {[fcps |-> pair, fresh |-> TRUE] :
                  pair \in IF UsesSameIndex(same_index)
                           THEN FcpPairsWithSameIndex(d)
                           ELSE FcpPairs(d)}
         ELSE {[fcps |-> SortedList(DbAllocated(d, a)), fresh |-> FALSE]}

\* the WWPNs of the device descriptors ("" for NONE)
NpivPort(f) == IF f = "fa00" THEN "c05076a" ELSE ""
PhysicalPort(f) ==
    IF f \in {"fa02", "fb02"} THEN ""
    ELSE IF f = "fa00" THEN "20076d8" ELSE "20076d9"

\* a variant of WwpnOfDescriptor that prefers the physical port
WwpnPhysicalFirst(f) ==
    IF PhysicalPort(f) # "" THEN PhysicalPort(f) ELSE NpivPort(f)

\* get_wwpn: the NPIV port, else the physical port, else none ("")
WwpnOfDescriptor(f) == IF NpivPort(f) # "" THEN NpivPort(f) ELSE PhysicalPort(f)

\* get_volume_connector: the WWPN of a device of the pool, or else of the
\* inventory read again (get_all_fcp_pool)
WwpnOf(f, live) ==
    IF fcp_pool[f] # Absent \/ live[f] # "gone" THEN WwpnOfDescriptor(f) ELSE ""

\* get_physical_wwpn: the physical port of a device of the pool, else none
GetPhysicalWwpn(pool, f) == IF pool[f] # Absent THEN PhysicalPort(f) ELSE ""

RECURSIVE WwpnList(_, _)
\* get_volume_connector, the wwpns list: the WWPNs found, in device order
WwpnList(fcps, live) ==
    IF fcps = <<>> THEN <<>>
    ELSE LET wwpn == WwpnOf(Head(fcps), live)
         IN  (IF wwpn = "" THEN <<>> ELSE <<wwpn>>) \o
             WwpnList(Tail(fcps), live)

RECURSIVE PhyVirtWwpnMap(_, _)
\* get_volume_connector, phy_virt_wwpn_map: one assignment for every device,
\* keyed by what the device resolved to (none included)
PhyVirtWwpnMap(fcps, live) ==
    IF fcps = <<>> THEN <<>>
    ELSE LET n == Len(fcps)
             before == PhyVirtWwpnMap(SubSeq(fcps, 1, n - 1), live)
             wwpn == WwpnOf(fcps[n], live)
         IN  [k \in DOMAIN before \cup {wwpn} |->
                 IF k = wwpn THEN GetPhysicalWwpn(fcp_pool, fcps[n])
                 ELSE before[k]]

connector(t) ==
    /\ t \in scope.workers
    /\ th[t].pc = "idle"
    /\ \E a \in scope.guests, reserve \in BOOLEAN, hostKnown \in BOOLEAN,
          live \in scope.views :
          LET req == [IdleThread EXCEPT !.op = "connector", !.assigner = a,
                         !.reserve = reserve, !.i = 1, !.pre = db,
                         !.preDedicated = dedicated]
          IN  IF ~hostKnown
              THEN /\ Finish(t, req, "raised", "nohost")
                   /\ UNCHANGED <<db, fcp_pool, fcp_path_mapping>>
              ELSE /\ InitFcp(live)
                   /\ Update(t, [req EXCEPT !.pc = "conn_query"])
    /\ UNCHANGED <<dedicated, scope, conf, aside>>

\* get_available_fcp, the queries: the reserved devices (not reserving), the
\* allocated devices, or a new pair
connector_query(t) ==
    /\ th[t].pc = "conn_query"
    /\ LET cur == th[t]
       IN  \E r \in AvailableFcp(db, cur.assigner, cur.reserve,
                                 conf.get_fcp_pair_with_same_index) :
              IF r.fcps = <<>>
              THEN Finish(t, cur, "empty", "none")
              ELSE Update(t, [cur EXCEPT !.fcps = r.fcps,
                                         !.pc = IF r.fresh THEN "conn_assign"
                                                ELSE "conn_wwpn"])
    /\ UNCHANGED <<db, dedicated, fcp_pool, fcp_path_mapping, scope, conf, aside>>

\* get_available_fcp: every device of the new pair is assigned to the guest,
\* its connection count left alone
connector_assign(t) ==
    /\ th[t].pc = "conn_assign"
    /\ LET cur == th[t]
           f == cur.fcps[cur.i]
           log == Append(cur.calls, Call("assign", f, "ok", ConnOrZero(db, f)))
       IN  /\ db' = DbAssign(db, f, cur.assigner, FALSE)
           /\ Update(t, Advance([cur EXCEPT !.calls = log], "conn_wwpn"))
    /\ UNCHANGED <<dedicated, fcp_pool, fcp_path_mapping, scope, conf, aside>>

\* get_volume_connector: the WWPNs of the devices; none at all ends the call
\* with the empty connector
connector_wwpn(t) ==
    /\ th[t].pc = "conn_wwpn"
    /\ LET cur == th[t]
           views == IF \A f \in Range(cur.fcps) : fcp_pool[f] # Absent
                    THEN {[f \in Devices |-> "gone"]}
                    ELSE scope.views
       IN  \E live \in views :
              IF WwpnList(cur.fcps, live) = <<>>
              THEN Finish(t, cur, "empty", "none")
              ELSE Update(t, [cur EXCEPT !.i = 1, !.pc = "conn_reserve",
                                 !.wwpns = WwpnList(cur.fcps, live),
                                 !.phy_virt_wwpn_map =
                                     PhyVirtWwpnMap(cur.fcps, live)])
    /\ UNCHANGED <<db, dedicated, fcp_pool, fcp_path_mapping, scope, conf, aside>>

\* a variant of ConnectorUnreserves that unreserves whatever the count is
ConnectorUnreservesAlways(connections) == TRUE

\* get_volume_connector, not reserving: a device is unreserved when
\* get_connections_from_fcp returns 0
ConnectorUnreserves(connections) == connections = 0

\* get_volume_connector, last loop: reserve every device, or (not
\* reserving) unreserve the devices without connections
connector_reserve(t) ==
    /\ th[t].pc = "conn_reserve"
    /\ LET cur == th[t]
           f == cur.fcps[cur.i]
           nxt == IF cur.i < Len(cur.fcps)
                  THEN [cur EXCEPT !.i = @ + 1]
                  ELSE [cur EXCEPT !.pc = "done", !.result = "ok"]
       IN  IF cur.reserve
           THEN /\ db' = DbSetReserved(db, f, TRUE)
                /\ Update(t, nxt)
           ELSE IF ~Exists(db, f)
                THEN /\ db' = db
                     /\ Finish(t, cur, "raised", "store")
                ELSE /\ db' = IF ConnectorUnreserves(DbConnections(db, f))
                              THEN DbSetReserved(db, f, FALSE)
                              ELSE db
                     /\ Update(t, nxt)
    /\ UNCHANGED <<dedicated, fcp_pool, fcp_path_mapping, scope, conf, aside>>

(***************************************************************************)
(* FCPVolumeManager.volume_refresh_bootmap                                 *)
(*                                                                         *)
(* All threads call the one FCPVolumeManager that VolumeOperatorAPI keeps  *)
(* in _fcp_manager_obj; its _lock is a threading.RLock.                    *)
(***************************************************************************)
Unlocked == [owner |-> 0, count |-> 0]

\* a variant of CanAcquire that never blocks
CanAcquireAlways(l, t) == TRUE

\* RLock.acquire() returns for the owner and when nobody owns the lock
CanAcquire(l, t) == l.owner \in {0, t}

Acquired(l, t) == [owner |-> t, count |-> l.count + 1]

\* RLock.release()
Released(l) ==
    IF l.count > 1 THEN [l EXCEPT !.count = @ - 1] ELSE Unlocked

\* volume_refresh_bootmap is called
refresh(t) ==
    /\ t \in scope.workers
    /\ th[t].pc = "idle"
    /\ \E fl \in scope.lists :
          Update(t, [IdleThread EXCEPT !.op = "refresh", !.fcps = fl,
                        !.pc = "lock_acquire", !.pre = db,
                        !.preDedicated = dedicated])
    /\ UNCHANGED <<db, dedicated, fcp_pool, fcp_path_mapping, scope, conf,
                   aside>>

\* "with zvmutils.acquire_lock(self._lock)": the thread waits for the lock
lock_acquire(t) ==
    /\ th[t].pc = "lock_acquire"
    /\ CanAcquire(lock, t)
    /\ lock' = Acquired(lock, t)
    /\ Update(t, [th[t] EXCEPT !.pc = "bootmap"])
    /\ UNCHANGED <<db, dedicated, fcp_pool, fcp_path_mapping, scope, conf,
                   expansion>>

\* the call of smtclient.volume_refresh_bootmap returns or raises
bootmap(t) ==
    /\ th[t].pc = "bootmap"
    /\ \E outcome \in {"ok", "error"} :
          Update(t, [th[t] EXCEPT !.pc = "lock_release",
                        !.calls = Append(@, Call("bootmap", "", outcome, 0)),
                        !.error = IF outcome = "ok" THEN "none"
                                  ELSE "bootmap"])
    /\ UNCHANGED <<db, dedicated, fcp_pool, fcp_path_mapping, scope, conf,
                   aside>>

\* the end of the with block, also when the call has raised
lock_release(t) ==
    /\ th[t].pc = "lock_release"
    /\ lock' = Released(lock)
    /\ IF th[t].error = "none"
       THEN Finish(t, th[t], "ok", "none")
       ELSE Finish(t, th[t], "raised", th[t].error)
    /\ UNCHANGED <<db, dedicated, fcp_pool, fcp_path_mapping, scope, conf,
                   expansion>>

(***************************************************************************)
(* The end of a request, and the restart of the process                    *)
(***************************************************************************)
\* the handler has returned or raised: the thread is free again
Return(t) ==
    /\ th[t].pc = "done"
    /\ Update(t, IdleThread)
    /\ UNCHANGED <<db, dedicated, fcp_pool, fcp_path_mapping, scope, conf, aside>>

\* FCPManager.__init__ in a new process: the pool and the mapping start
\* empty, the store is the persisted one
Restart ==
    /\ \A t \in Threads : th[t].pc = "idle"
    /\ fcp_pool' = [f \in Devices |-> Absent]
    /\ fcp_path_mapping' = EmptyMapping
    /\ conf' \in scope.confs
    /\ lock' = Unlocked
    /\ UNCHANGED <<db, dedicated, th, scope, expansion>>

(***************************************************************************)
(* FCPManager._expand_fcp_list                                             *)
(*                                                                         *)
(* A string is a sequence of characters.                                   *)
(***************************************************************************)
HexLower == <<"0", "1", "2", "3", "4", "5", "6", "7",
              "8", "9", "a", "b", "c", "d", "e", "f">>
HexUpper == <<"0", "1", "2", "3", "4", "5", "6", "7",
              "8", "9", "A", "B", "C", "D", "E", "F">>
\* the characters of the class [0-9a-fA-F]
HexChars == Range(HexLower) \cup Range(HexUpper)

\* int(c, 16) for one digit
DigitValue(c) ==
    (CHOOSE k \in 1..16 : HexLower[k] = c \/ HexUpper[k] = c) - 1

RECURSIVE HexValue(_)
\* int(w, 16)
HexValue(w) ==
    IF w = <<>> THEN 0
    ELSE 16 * HexValue(SubSeq(w, 1, Len(w) - 1)) + DigitValue(w[Len(w)])

\* "%04x" % n, for n < 65536
Format04x(n) ==
    <<HexLower[((n \div 4096) % 16) + 1], HexLower[((n \div 256) % 16) + 1],
      HexLower[((n \div 16) % 16) + 1], HexLower[(n % 16) + 1]>>

RECURSIVE Split(_, _)
\* s.split(sep)
Split(s, sep) ==
    IF \A i \in 1..Len(s) : s[i] # sep THEN <<s>>
    ELSE LET i == CHOOSE k \in 1..Len(s) :
                     s[k] = sep /\ \A j \in 1..(k - 1) : s[j] # sep
         IN  <<SubSeq(s, 1, i - 1)>> \o Split(SubSeq(s, i + 1, Len(s)), sep)

\* fcp_list.strip().replace(' ', '')
StripSpaces(s) == SelectSeq(s, LAMBDA c : c # " ")

\* [0-9a-fA-F]{1,4}
IsAddress(w) == Len(w) \in 1..4 /\ \A i \in 1..Len(w) : w[i] \in HexChars

\* range_pattern: an address, or two addresses joined by '-'
RangePattern(w) ==
    LET parts == Split(w, "-")
    IN  Len(parts) \in 1..2 /\ \A i \in 1..Len(parts) : IsAddress(parts[i])

\* item_pattern: ranges joined by ','
ItemPattern(w) ==
    LET parts == Split(w, ",")
    IN  \A i \in 1..Len(parts) : RangePattern(parts[i])

\* "^(unit)(;unit;?)*$" over the ';'-delimited pieces of the string, where
\* unit[i] says whether piece i matches the unit: the first piece is a unit
\* and every later piece is a unit or, after a unit that is not the first,
\* empty
ListPattern(pieces, unit) ==
    /\ unit[1]
    /\ \A i \in 2..Len(pieces) :
          \/ unit[i]
          \/ pieces[i] = <<>> /\ i > 2 /\ pieces[i - 1] # <<>>

\* the two re.match tests: when both fail, SDKInternalError is raised
Accepted(s) ==
    LET pieces == Split(s, ";")
    IN  \/ ListPattern(pieces, [i \in DOMAIN pieces |->
                                   RangePattern(pieces[i])])
        \/ ListPattern(pieces, [i \in DOMAIN pieces |->
                                   ItemPattern(pieces[i])])

\* a variant of ItemDevices that leaves out the upper bound of a range
ItemDevicesExclusive(item) ==
    IF "-" \notin Range(item)
    THEN {Format04x(HexValue(item))}
    ELSE LET parts == Split(item, "-")
         IN  {Format04x(n) :
                 n \in HexValue(parts[1])..(HexValue(parts[2]) - 1)}

\* the devices of one item: a single address, or range(_min, _max + 1)
ItemDevices(item) ==
    IF "-" \notin Range(item)
    THEN {Format04x(HexValue(item))}
    ELSE LET parts == Split(item, "-")
         IN  {Format04x(n) : n \in HexValue(parts[1])..HexValue(parts[2])}

\* the items of one ';'-delimited piece that are not ''
ItemsOf(piece) == {item \in Range(Split(piece, ",")) : item # <<>>}

\* _expand_fcp_list after the pattern test: path_no counts the pieces; a
\* piece without items leaves no key
ExpandFcpList(fcp_list) ==
    IF fcp_list = <<>> THEN <<>>
    ELSE LET pieces == Split(StripSpaces(fcp_list), ";")
             keys == {k \in 0..(Len(pieces) - 1) : ItemsOf(pieces[k + 1]) # {}}
         IN  [k \in keys |->
                 UNION {ItemDevices(item) : item \in ItemsOf(pieces[k + 1])}]

\* the strings handed to _expand_fcp_list are written from tokens: each has
\* its text and the addresses it stands for
Token(text, addresses) == [text |-> text, addresses |-> addresses]

Tokens ==
    { Token(<<"1", "1">>, {17}),
      Token(<<"0", "0", "1", "1", "-", "0", "0", "1", "3">>, {17, 18, 19}),
      Token(<<"1", "a", "-", "1", "B">>, {26, 27}),
      Token(<<"0", "0", "2", "1", "-", "0", "0", "2", "3">>, {33, 34, 35}),
      Token(<<"0", "0", "1", "3", "-", "0", "0", "1", "1">>, {}),
      Token(<<"z", "z", "-", "0", "1">>, {}) }

\* most ';'-delimited pieces of a string, most tokens of a piece, and most
\* tokens of a string
MaxPaths == 4
MaxTokens == 2
MaxTotal == 3

RECURSIVE Total(_)
\* the sum of a list of numbers
Total(ns) == IF ns = <<>> THEN 0 ELSE Head(ns) + Total(Tail(ns))

\* the number of tokens of every piece of a string of at most total tokens
Shapes(total) ==
    {shape \in UNION {[1..n -> 0..MaxTokens] : n \in 0..MaxPaths} :
        Total(shape) <= total}

\* a specification is a list of pieces and a piece a list of tokens: the
\* tokens toks, cut as the shape says
Cut(shape, toks) ==
    [k \in 1..Len(shape) |->
        SubSeq(toks, Total(SubSeq(shape, 1, k - 1)) + 1,
                     Total(SubSeq(shape, 1, k)))]

RECURSIVE Join(_, _)
\* the texts of the list joined with sep between them
Join(texts, sep) ==
    IF texts = <<>> THEN <<>>
    ELSE IF Len(texts) = 1 THEN texts[1]
    ELSE texts[1] \o sep \o Join(Tail(texts), sep)

\* the string of a specification; when spaced, blanks surround it and
\* follow every separator
Written(spec, spaced) ==
    LET gap == IF spaced THEN <<" ">> ELSE <<>>
        PieceText(piece) ==
            Join([i \in 1..Len(piece) |-> piece[i].text], <<",">> \o gap)
        text == Join([k \in 1..Len(spec) |-> PieceText(spec[k])],
                     <<";">> \o gap)
    IN  gap \o text \o gap

NotCalled(spec, spaced) ==
    [spec |-> spec, fcp_list |-> Written(spec, spaced), called |-> FALSE,
     raised |-> FALSE, result |-> <<>>]

\* one call of _expand_fcp_list(fcp_list)
expand_fcp_list ==
    /\ ~expansion.called
    /\ LET fcp_list == expansion.fcp_list
       IN  IF fcp_list # <<>> /\ ~Accepted(StripSpaces(fcp_list))
           THEN expansion' = [expansion EXCEPT !.called = TRUE,
                                               !.raised = TRUE]
           ELSE expansion' = [expansion EXCEPT !.called = TRUE,
                                 !.result = ExpandFcpList(fcp_list)]
    /\ UNCHANGED <<db, dedicated, fcp_pool, fcp_path_mapping, th, scope, conf,
                   lock>>

(***************************************************************************)
(* Specifications                                                          *)
(***************************************************************************)
InitCommon ==
    /\ db = EmptyDb
    /\ dedicated = NoneDedicated
    /\ fcp_pool = [f \in Devices |-> Absent]
    /\ fcp_path_mapping = EmptyMapping
    /\ th = [t \in Threads |-> IdleThread]
    /\ lock = Unlocked
    /\ expansion = NotCalled(<<>>, FALSE)

\* requests of one guest, served one after the other: every device list,
\* root volumes and connections-only detaches included, any inventory
Init ==
    /\ InitCommon
    /\ scope = [workers |-> {1}, guests |-> {"UA"}, lists |-> DeviceLists,
                flags |-> BOOLEAN, views |-> LiveViews,
                confs |-> {DefaultConf}]
    /\ conf = DefaultConf

\* requests of one guest for the device fa00, served by two threads at once;
\* the inventory reports fa00 free, or no device at all
InitConc ==
    /\ InitCommon
    /\ scope = [workers |-> Threads, guests |-> {"UA"},
                lists |-> {<<"fa00">>}, flags |-> {FALSE},
                views |-> {[f \in Devices |->
                               IF f = "fa00" THEN "free" ELSE "gone"],
                           [f \in Devices |-> "gone"]},
                confs |-> {DefaultConf}]
    /\ conf = DefaultConf

\* requests of one guest for one device at a time, served one after the
\* other; the process restarts under any of five configurations
InitSync ==
    /\ InitCommon
    /\ scope = [workers |-> {1}, guests |-> {"UA"},
                lists |-> {<<"fa00">>, <<"fb00">>}, flags |-> {FALSE},
                views |-> LiveViews,
                confs |-> {DefaultConf, Conf(SwappedMapping, FALSE),
                           Conf(SingleMapping, FALSE),
                           Conf(OverlapMapping, FALSE),
                           Conf(EmptyMapping, FALSE)}]
    /\ conf = DefaultConf

\* the host with two paths of three devices, all of them free in the
\* inventory, and same-index pairing: two guests ask for connectors and
\* attach and detach the device fa00
InitPair ==
    /\ InitCommon
    /\ scope = [workers |-> {1}, guests |-> Assigners,
                lists |-> {<<"fa00">>}, flags |-> {FALSE},
                views |-> {View(Devices, [f \in Devices |-> "free"])},
                confs |-> {Conf(PairMapping, TRUE)}]
    /\ conf = Conf(PairMapping, TRUE)

\* requests of one guest, served one after the other, none of them for a
\* root volume or connections-only
InitPlain ==
    /\ InitCommon
    /\ scope = [workers |-> {1}, guests |-> {"UA"}, lists |-> DeviceLists,
                flags |-> {FALSE}, views |-> LiveViews,
                confs |-> {DefaultConf}]
    /\ conf = DefaultConf

Step(t) ==
    \/ attach(t)
    \/ add_read(t)
    \/ add_write(t)
    \/ dedicate_step(t)
    \/ config_step(t)
    \/ rollback_dec(t)
    \/ rollback_unreserve(t)
    \/ detach(t)
    \/ detach_decrease(t)
    \/ detach_remove(t)
    \/ detach_undedicate(t)
    \/ detach_rollback(t)
    \/ detach_readd(t)
    \/ connector(t)
    \/ connector_query(t)
    \/ connector_assign(t)
    \/ connector_wwpn(t)
    \/ connector_reserve(t)
    \/ Return(t)

Next == (\E t \in Threads : Step(t)) \/ Restart

Spec == Init /\ [][Next]_vars

SpecConc == InitConc /\ [][Next]_vars

SpecPlain == InitPlain /\ [][Next]_vars

SpecSync == InitSync /\ [][Next]_vars

SpecPair == InitPair /\ [][Next]_vars

\* two threads refresh the boot map, for any device list
InitBoot ==
    /\ InitCommon
    /\ scope = [workers |-> Threads, guests |-> {"UA"}, lists |-> DeviceLists,
                flags |-> {FALSE}, views |-> LiveViews,
                confs |-> {DefaultConf}]
    /\ conf = DefaultConf

StepBoot(t) ==
    \/ refresh(t)
    \/ lock_acquire(t)
    \/ bootmap(t)
    \/ lock_release(t)
    \/ Return(t)

NextBoot == \E t \in Threads : StepBoot(t)

\* the host with two paths of three devices, all free, and pairing of any
\* positions: one guest asks for connectors and attaches and detaches fa00
InitCross ==
    /\ InitCommon
    /\ scope = [workers |-> {1}, guests |-> {"UA"},
                lists |-> {<<"fa00">>}, flags |-> {FALSE},
                views |-> {View(Devices, [f \in Devices |-> "free"])},
                confs |-> {Conf(PairMapping, FALSE)}]
    /\ conf = Conf(PairMapping, FALSE)

SpecCross == InitCross /\ [][Next]_vars

\* requests of one guest for fa00 or for fa00 and fb00, served one after
\* the other; a thread that is inside a request goes on: every call it makes
\* to the store, the inventory or the transport returns
InitLive ==
    /\ InitCommon
    /\ scope = [workers |-> {1}, guests |-> {"UA"},
                lists |-> {<<"fa00">>, <<"fa00", "fb00">>},
                flags |-> {FALSE},
                views |-> {View(BaseDevices, [f \in BaseDevices |-> "free"]),
                           [f \in Devices |-> "gone"]},
                confs |-> {DefaultConf}]
    /\ conf = DefaultConf

\* the steps of a request that has been called
Progress(t) ==
    \/ add_read(t)
    \/ add_write(t)
    \/ dedicate_step(t)
    \/ config_step(t)
    \/ rollback_dec(t)
    \/ rollback_unreserve(t)
    \/ detach_decrease(t)
    \/ detach_remove(t)
    \/ detach_undedicate(t)
    \/ detach_rollback(t)
    \/ detach_readd(t)
    \/ connector_query(t)
    \/ connector_assign(t)
    \/ connector_wwpn(t)
    \/ connector_reserve(t)

SpecLive ==
    InitLive /\ [][Next]_vars /\ \A t \in Threads : WF_vars(Progress(t))

SpecBoot == InitBoot /\ [][NextBoot]_vars

\* the two-device host, both devices free: two threads serve
\* get_volume_connector for two guests
InitAlloc ==
    /\ InitCommon
    /\ scope = [workers |-> Threads, guests |-> Assigners,
                lists |-> {<<"fa00">>}, flags |-> {FALSE},
                views |-> {View(BaseDevices,
                                [f \in BaseDevices |-> "free"])},
                confs |-> {DefaultConf}]
    /\ conf = DefaultConf

StepAlloc(t) ==
    \/ connector(t)
    \/ connector_query(t)
    \/ connector_assign(t)
    \/ connector_wwpn(t)
    \/ connector_reserve(t)
    \/ Return(t)

NextAlloc == \E t \in Threads : StepAlloc(t)

SpecAlloc == InitAlloc /\ [][NextAlloc]_vars

\* _expand_fcp_list is applied to the string of any specification, written
\* with or without blanks
InitExpand ==
    /\ db = EmptyDb
    /\ dedicated = NoneDedicated
    /\ fcp_pool = [f \in Devices |-> Absent]
    /\ fcp_path_mapping = EmptyMapping
    /\ th = [t \in Threads |-> IdleThread]
    /\ lock = Unlocked
    /\ scope = [workers |-> {}, guests |-> {}, lists |-> {}, flags |-> {},
                views |-> {}, confs |-> {DefaultConf}]
    /\ conf = DefaultConf
    /\ \E shape \in Shapes(MaxTotal), spaced \in BOOLEAN :
          \E toks \in [1..Total(shape) -> Tokens] :
              expansion = NotCalled(Cut(shape, toks), spaced)

NextExpand == expand_fcp_list

SpecExpand == InitExpand /\ [][NextExpand]_vars

(***************************************************************************)
(* Properties                                                              *)
(***************************************************************************)
Done(t) == th[t].pc = "done"

\* the calls of one kind that the request log holds for device f
CallsOf(calls, kind, f) ==
    {k \in DOMAIN calls : calls[k].kind = kind /\ calls[k].fcp = f}

\* an attach that raised after its configuration step failed and its
\* rollback ran
ConfigFailed(t) ==
    /\ Done(t)
    /\ th[t].op = "attach"
    /\ th[t].result = "raised"
    /\ th[t].error = "config"

\* C1 as stated: after an attach that failed at the configuration step,
\* every device of the request has the connection count and the reserved
\* flag it had before the call.
C1_RollbackRestoresCountAndReserved ==
    \A t \in Threads :
        ConfigFailed(t) =>
            \A f \in Range(th[t].fcps) :
                Exists(th[t].pre, f) =>
                    /\ Exists(db, f)
                    /\ db[f].connections = th[t].pre[f].connections
                    /\ db[f].reserved = th[t].pre[f].reserved

\* C1 amended: after an attach that failed at the configuration step, every
\* device of the request has the connection count it had before the call;
\* its reserved flag is the one it had before the call when that count is
\* greater than zero, and is cleared when the count is zero.
C1_RollbackRestoresCount ==
    \A t \in Threads :
        ConfigFailed(t) =>
            \A f \in Range(th[t].fcps) :
                Exists(th[t].pre, f) =>
                    /\ Exists(db, f)
                    /\ db[f].connections = th[t].pre[f].connections
                    /\ db[f].reserved =
                          (th[t].pre[f].reserved /\ db[f].connections # 0)

\* a configuration failure rolled back over a device in use and one that
\* was only reserved
C1_Witness ==
    \E t \in Threads :
        /\ ConfigFailed(t)
        /\ \E f, g \in Range(th[t].fcps) :
              /\ Exists(th[t].pre, f) /\ Exists(th[t].pre, g)
              /\ th[t].pre[f].connections = 1 /\ th[t].pre[f].reserved
              /\ th[t].pre[g].connections = 0 /\ th[t].pre[g].reserved

\* C2: whenever an attach raises, at whatever step, every device of the
\* request has the connection count it had before the call.
C2_NoHalfAppliedAttach ==
    \A t \in Threads :
        (Done(t) /\ th[t].op = "attach" /\ th[t].result = "raised") =>
            \A f \in Range(th[t].fcps) :
                (Exists(th[t].pre, f) /\ Exists(db, f)) =>
                    db[f].connections = th[t].pre[f].connections

\* C3: between requests, every device whose connection count is greater
\* than zero is dedicated to its assigner.
C3_UsageMatchesDedication ==
    (\A t \in Threads : th[t].pc = "idle") =>
        \A f \in Devices :
            (Exists(db, f) /\ db[f].connections > 0) =>
                dedicated[f] = db[f].assigner

\* a non-root attach that returned normally
AttachSucceeded(t) ==
    /\ Done(t)
    /\ th[t].op = "attach"
    /\ th[t].result = "ok"
    /\ ~th[t].is_root_volume

\* C4: a successful attach of a device (named once in the request) whose
\* count was 0 reports first use, dedicates it once and leaves the count at
\* 1; the next successful attach of it by the same assigner finds the count
\* at 1, reports not first use, issues no dedicate and leaves the count at 2.
C4_SequentialUsageAccounting ==
    \A t \in Threads :
        AttachSucceeded(t) =>
            \A f \in Range(th[t].fcps) :
                Mult(th[t].fcps, f) = 1 =>
                    LET before == ConnOrZero(th[t].pre, f)
                    IN  /\ Exists(db, f)
                        /\ db[f].connections = before + 1
                        /\ th[t].fcp_status[f] = (before = 0)
                        /\ Cardinality(CallsOf(th[t].calls, "dedicate", f))
                              = (IF before = 0 THEN 1 ELSE 0)

\* the second of two attaches: the device was at count 1 and dedicated to
\* the assigner, and is at 2 now
C4_Witness ==
    \E t \in Threads :
        /\ AttachSucceeded(t)
        /\ \E f \in Range(th[t].fcps) :
              /\ Mult(th[t].fcps, f) = 1
              /\ Exists(th[t].pre, f)
              /\ th[t].pre[f].connections = 1
              /\ th[t].pre[f].assigner = th[t].assigner
              /\ th[t].preDedicated[f] = th[t].assigner
              /\ db[f].connections = 2
              /\ ~th[t].fcp_status[f]

\* C5: every undedicate a detach or an attach rollback issues is for a
\* device whose decrement in this call gave the count 0; in a detach, a
\* device whose count after the decrement is above zero has no undedicate.
C5_UndedicateOnlyAtZero ==
    \A t \in Threads :
        \A k \in DOMAIN th[t].calls :
            th[t].calls[k].kind = "undedicate" =>
                /\ th[t].calls[k].count = 0
                /\ th[t].op = "detach" =>
                      th[t].fcp_connections[th[t].calls[k].fcp] = 0

\* a detach that undedicated one device and left alone another one that is
\* still in use
C5_Witness ==
    \E t \in Threads :
        /\ Done(t) /\ th[t].op = "detach" /\ th[t].result = "ok"
        /\ \E f, g \in Range(th[t].fcps) :
              /\ CallsOf(th[t].calls, "undedicate", f) # {}
              /\ th[t].fcp_connections[g] > 0
              /\ CallsOf(th[t].calls, "undedicate", g) = {}

\* C6: a detach (guest exists, not root, not connections-only) that returns
\* normally has issued undedicate for every device whose count reached zero
\* in this call.
C6_CompleteUndedication ==
    \A t \in Threads :
        (/\ Done(t) /\ th[t].op = "detach" /\ th[t].result = "ok"
         /\ \E k \in DOMAIN th[t].calls : th[t].calls[k].kind = "deconfig") =>
            \A f \in Range(th[t].fcps) :
                (th[t].need_rollback[f] /\ th[t].fcp_connections[f] = 0) =>
                    CallsOf(th[t].calls, "undedicate", f) # {}

\* step 4 of the detach failed with an error that is not "already
\* undedicated"
DetachStepFailed(t) ==
    /\ th[t].op = "detach"
    /\ \E k \in DOMAIN th[t].calls :
          /\ th[t].calls[k].kind \in {"deconfig", "undedicate"}
          /\ th[t].calls[k].outcome = "error"

\* C7: a detach whose deconfiguration or undedicate failed (not "already
\* undedicated") ends by raising, and every device that needs rollback has
\* the connection count it had before the call.
C7_DetachRollbackRestoresUsage ==
    \A t \in Threads :
        (Done(t) /\ DetachStepFailed(t)) =>
            /\ th[t].result = "raised"
            /\ th[t].error \in {"deconfig", "undedicate"}
            /\ \A f \in Range(th[t].fcps) :
                  th[t].need_rollback[f] =>
                      /\ Exists(db, f)
                      /\ db[f].connections = th[t].pre[f].connections

\* a failed undedicate after which a count that had reached zero is back at 1
C7_Witness ==
    \E t \in Threads :
        /\ Done(t) /\ DetachStepFailed(t)
        /\ th[t].error = "undedicate"
        /\ \E f \in Range(th[t].fcps) :
              /\ th[t].need_rollback[f]
              /\ th[t].fcp_connections[f] = 0
              /\ db[f].connections = 1

Registered(t) ==
    /\ th[t].op = "attach"
    /\ \/ th[t].pc \in {"dedicate", "config"}
       \/ Done(t) /\ th[t].result = "ok"

\* C9: when two attaches of the same device started at connection count 0
\* and have both registered their usage, exactly one of them reported first
\* use and the count is 2.
C9_ExactlyOneFirstUse ==
    \A t, u \in Threads :
        (/\ t # u
         /\ Registered(t) /\ Registered(u)
         /\ th[t].fcps = <<"fa00">> /\ th[u].fcps = <<"fa00">>
         /\ ConnOrZero(th[t].pre, "fa00") = 0
         /\ ConnOrZero(th[u].pre, "fa00") = 0) =>
            /\ th[t].fcp_status["fa00"] # th[u].fcp_status["fa00"]
            /\ Exists(db, "fa00")
            /\ db["fa00"].connections = 2

\* the attach started its rollback: a dedicate or the configuration failed
RolledBack(t) ==
    /\ th[t].op = "attach"
    /\ \E k \in DOMAIN th[t].calls :
          /\ th[t].calls[k].kind \in {"dedicate", "config"}
          /\ th[t].calls[k].outcome = "error"

\* C10: an attach that rolled back raises the error built from the original
\* dedicate or configuration failure, whatever happened during the rollback.
C10_RollbackKeepsOriginalError ==
    \A t \in Threads :
        (Done(t) /\ RolledBack(t)) =>
            /\ th[t].result = "raised"
            /\ th[t].error \in {"dedicate", "config"}

\* C11: after a non-root attach that failed in a dedicate or in the
\* configuration step and rolled back, every device of the request whose
\* connection count is zero has its reserved flag cleared.
C11_RollbackClearsReservations ==
    \A t \in Threads :
        (Done(t) /\ RolledBack(t) /\ th[t].result = "raised") =>
            \A f \in Range(th[t].fcps) :
                (Exists(db, f) /\ db[f].connections = 0) => ~db[f].reserved

\* a rolled-back attach of a device that was reserved and unused before it
C11_Witness ==
    \E t \in Threads :
        /\ Done(t) /\ RolledBack(t) /\ th[t].result = "raised"
        /\ \E f \in Range(th[t].fcps) :
              /\ Exists(th[t].pre, f)
              /\ th[t].pre[f].reserved
              /\ th[t].pre[f].connections = 0
              /\ Exists(db, f)
              /\ db[f].connections = 0
              /\ ~db[f].reserved

\* no request is being served: the next init_fcp starts from this state
Idle == \A t \in Threads : th[t].pc = "idle"

\* the pool and the store after an init_fcp that starts in this state and
\* sees the inventory `live`
PoolNext(live) == PoolAfterInit(fcp_pool, conf.fcp_list, live)
DbNext(live) == DbAfterInit(db, fcp_pool, conf.fcp_list, live)

\* the inventories under which a synchronisation pass may run now
Passes ==
    IF Idle /\ ~VolumeDisabled(conf.fcp_list) THEN scope.views ELSE {}

\* C12: when init_fcp runs twice in a row with the same inventory,
\* configuration and store, the second run makes no write to the store (no
\* new, no delete, no update_path_of_fcp).
C12_IdempotentSync ==
    \A live \in Passes :
        SyncWrites(DbNext(live),
                   InitFcpPool(PoolNext(live), conf.fcp_list, live),
                   conf.fcp_list) = {}

\* C13: a synchronisation pass deletes a record whose address is not in the
\* pool if and only if the record is not reserved.
C13_OrphanDeletedUnlessReserved ==
    \A live \in Passes :
        \A f \in Devices :
            (Exists(db, f) /\ PoolNext(live)[f] = Absent) =>
                (Exists(DbNext(live), f) <=> db[f].reserved)

\* a pass that meets a reserved orphan, which it keeps, and an orphan that is
\* not reserved, which it deletes
C13_Witness ==
    \E live \in Passes :
        \E f, g \in Devices :
            /\ Exists(db, f) /\ PoolNext(live)[f] = Absent
            /\ db[f].reserved /\ DbNext(live)[f] = db[f]
            /\ Exists(db, g) /\ PoolNext(live)[g] = Absent
            /\ ~db[g].reserved /\ ~Exists(DbNext(live), g)

\* C14: after a synchronisation pass the pool holds exactly the devices that
\* are in that pass's inventory and in that pass's path mapping.
C14_PoolReplacedWholesale ==
    \A live \in Passes :
        \A f \in Devices :
            (PoolNext(live)[f] # Absent) <=>
                (live[f] # "gone" /\ Configured(conf.fcp_list, f))

\* C15: for an address of the path mapping that is in the pool and has no
\* record, a synchronisation pass creates the record if and only if the
\* live status of the device is free.
C15_NewRecordsOnlyForFree ==
    \A live \in Passes :
        \A f \in Devices :
            (/\ Configured(conf.fcp_list, f)
             /\ PoolNext(live)[f] # Absent
             /\ ~Exists(db, f)) =>
                (Exists(DbNext(live), f) <=> live[f] = "free")

\* a pass with two devices that have no record: it creates the record of the
\* free one and none for the active one
C15_Witness ==
    \E live \in Passes :
        \E f, g \in Devices :
            /\ ~Exists(db, f) /\ live[f] = "free" /\ Exists(DbNext(live), f)
            /\ ~Exists(db, g) /\ live[g] = "active"
            /\ PoolNext(live)[g] = "active" /\ ~Exists(DbNext(live), g)

\* the paths of the mapping that contain the address
PathsOf(mapping, f) == {p \in DOMAIN mapping : f \in mapping[p]}

C17_UnconfiguredUntouched ==
    \A live \in Passes :
        \A f \in Devices :
            (live[f] # "gone" /\ PathsOf(conf.fcp_list, f) = {}) =>
                /\ PoolNext(live)[f] = Absent
                /\ DbNext(live)[f] = db[f]

\* C17 amended: a device of the inventory whose address is not configured is
\* not put in the pool and no record is created for it; a record it has is
\* an orphan: it is deleted unless it is reserved, and is unchanged if kept.
C17_UnconfiguredNotPooled ==
    \A live \in Passes :
        \A f \in Devices :
            (live[f] # "gone" /\ PathsOf(conf.fcp_list, f) = {}) =>
                /\ PoolNext(live)[f] = Absent
                /\ DbNext(live)[f] =
                      IF Exists(db, f) /\ db[f].reserved THEN db[f] ELSE NoRec

\* a pass that sees a device that is not configured and has a record that
\* is not reserved
C17_Witness ==
    \E live \in Passes :
        \E f \in Devices :
            /\ live[f] # "gone" /\ PathsOf(conf.fcp_list, f) = {}
            /\ Exists(db, f) /\ ~db[f].reserved
            /\ ~Exists(DbNext(live), f)
            /\ PoolNext(live)[f] = Absent

\* a get_volume_connector with reserve that has returned after
\* get_available_fcp allocated a new device set
FreshlyAllocated(t) ==
    /\ Done(t)
    /\ th[t].op = "connector"
    /\ th[t].reserve
    /\ th[t].fcps # <<>>
    /\ \A f \in Range(th[t].fcps) : CallsOf(th[t].calls, "assign", f) # {}

\* C18: after get_available_fcp has allocated a new device set for a guest,
\* the next get_available_fcp with reserve for that guest, the records being
\* as the request left them, returns the same devices and allocates nothing.
C18_StickyAllocation ==
    \A t \in Threads :
        FreshlyAllocated(t) =>
            \A r \in AvailableFcp(db, th[t].assigner, TRUE,
                                  conf.get_fcp_pair_with_same_index) :
                /\ ~r.fresh
                /\ Range(r.fcps) = Range(th[t].fcps)

\* C19: get_available_fcp without reserve returns the devices the store
\* reports as reserved for the guest, in the store's order, and writes
\* nothing to the store.
C19_NonReservingLookup ==
    [][\A t \in Threads :
          (/\ th[t].pc = "conn_query"
           /\ ~th[t].reserve
           /\ th'[t].pc # "conn_query") =>
              /\ db' = db
              /\ th'[t].fcps = SortedList(DbReserved(db, th[t].assigner))]_vars

\* a lookup without reserve that returned the one reserved device of the
\* guest while another device was free
C19_Witness ==
    \E t \in Threads :
        /\ th[t].op = "connector" /\ ~th[t].reserve
        /\ th[t].pc = "conn_wwpn"
        /\ th[t].fcps # <<>>
        /\ th[t].calls = <<>>
        /\ \E f \in Devices :
              /\ f \notin Range(th[t].fcps)
              /\ Exists(db, f) /\ db[f].connections = 0 /\ ~db[f].reserved

\* the device is free in the store
IsFree(d, f) == Exists(d, f) /\ d[f].connections = 0 /\ ~d[f].reserved

\* get_available_fcp has just chosen a new device pair under same-index
\* pairing, on the host with two paths of three devices
NewPairChosen(t) ==
    /\ th[t].op = "connector"
    /\ th[t].pc = "conn_assign"
    /\ th[t].i = 1
    /\ Len(th[t].fcps) = 2
    /\ conf.get_fcp_pair_with_same_index
    /\ conf.fcp_list = PairMapping

\* some position at which the devices of both paths are free
EqualPairFree(d) ==
    \E f \in PairMapping[0], g \in PairMapping[1] :
        /\ PositionIn(PairMapping[0], f) = PositionIn(PairMapping[1], g)
        /\ IsFree(d, f) /\ IsFree(d, g)

\* C20: with same-index pairing and two paths of three devices, a new
\* allocation never returns two devices at different positions of their
\* paths while the two devices of some position are both free.
C20_SameIndexPairing ==
    \A t \in Threads :
        NewPairChosen(t) =>
            ~(/\ PositionIn(PairMapping[0], th[t].fcps[1])
                    # PositionIn(PairMapping[1], th[t].fcps[2])
              /\ EqualPairFree(db))

\* a new pair at equal positions, chosen while a free device of the first
\* path had a partner in use and a free device of another position
C20_Witness ==
    \E t \in Threads :
        /\ NewPairChosen(t)
        /\ PositionIn(PairMapping[0], th[t].fcps[1])
              = PositionIn(PairMapping[1], th[t].fcps[2])
        /\ \E f \in PairMapping[0], g \in PairMapping[1] :
              /\ PositionIn(PairMapping[0], f) # PositionIn(PairMapping[1], g)
              /\ IsFree(db, f) /\ IsFree(db, g)
              /\ \E h \in PairMapping[0] :
                    /\ PositionIn(PairMapping[0], h) = PositionIn(PairMapping[1], g)
                    /\ ~IsFree(db, h)

(***************************************************************************)
(* C21: a device in use is not reassigned                                  *)
(***************************************************************************)
\* the devices with a connection count above zero in the records d
InUse(d) == {f \in Devices : Exists(d, f) /\ d[f].connections > 0}

\* C21: no attach, detach (rollback included) or get_volume_connector call
\* changes the persisted assigner of a device whose connection count was
\* above zero when the call started
C21_InUseNotReassigned ==
    \A t \in Threads :
        th[t].op \in {"attach", "detach", "connector"} =>
            \A f \in InUse(th[t].pre) :
                Exists(db, f) => db[f].assigner = th[t].pre[f].assigner

(***************************************************************************)
(* C22, C23: the expansion of the address specification                    *)
(***************************************************************************)
\* the call of _expand_fcp_list has returned a mapping: the string was
\* accepted
ExpandReturned == expansion.called /\ ~expansion.raised

\* C22: for every accepted specification string, the device sets of any two
\* different path indices of the returned mapping share no address
C22_PathsDisjoint ==
    ExpandReturned =>
        \A j, k \in DOMAIN expansion.result :
            j # k => expansion.result[j] \cap expansion.result[k] = {}

\* the addresses the tokens stand for, written as 4 lower-case zero-padded
\* hex digits
Canonical(n) ==
    CASE n = 17 -> <<"0", "0", "1", "1">>
      [] n = 18 -> <<"0", "0", "1", "2">>
      [] n = 19 -> <<"0", "0", "1", "3">>
      [] n = 26 -> <<"0", "0", "1", "a">>
      [] n = 27 -> <<"0", "0", "1", "b">>
      [] n = 33 -> <<"0", "0", "2", "1">>
      [] n = 34 -> <<"0", "0", "2", "2">>
      [] n = 35 -> <<"0", "0", "2", "3">>

\* the union over the tokens of a piece of the addresses they stand for
ExpectedSet(piece) ==
    UNION {{Canonical(n) : n \in piece[i].addresses} : i \in 1..Len(piece)}

\* C23: for every accepted specification string, the k-th ';'-delimited
\* piece (from 0) that has tokens maps to path index k, a piece without
\* tokens to none, and the set at index k is exactly the union over the
\* piece's tokens of the single address or of all addresses from the lower
\* to the upper bound, each as 4 lower-case zero-padded hex digits
C23_ExpansionResult ==
    ExpandReturned =>
        LET spec == expansion.spec
            result == expansion.result
        IN  /\ DOMAIN result = {k \in 0..(Len(spec) - 1) : spec[k + 1] # <<>>}
            /\ \A k \in DOMAIN result : result[k] = ExpectedSet(spec[k + 1])

\* C23, the case: "0011-0013;0021-0023" has been expanded to
\* {0: {0011, 0012, 0013}, 1: {0021, 0022, 0023}}
C23_Witness ==
    /\ ExpandReturned
    /\ expansion.fcp_list =
          <<"0", "0", "1", "1", "-", "0", "0", "1", "3", ";",
            "0", "0", "2", "1", "-", "0", "0", "2", "3">>
    /\ DOMAIN expansion.result = {0, 1}
    /\ expansion.result[0] = {<<"0", "0", "1", "1">>, <<"0", "0", "1", "2">>,
                              <<"0", "0", "1", "3">>}
    /\ expansion.result[1] = {<<"0", "0", "2", "1">>, <<"0", "0", "2", "2">>,
                              <<"0", "0", "2", "3">>}

(***************************************************************************)
(* C26: the boot-map refresh is serialized                                 *)
(***************************************************************************)
\* the threads inside the call of smtclient.volume_refresh_bootmap
Refreshing == {t \in Threads : th[t].pc = "bootmap"}

\* C26: when several threads call volume_refresh_bootmap concurrently, at
\* most one of them is executing the underlying boot-map refresh at any time
C26_RefreshSerialized == Cardinality(Refreshing) <= 1

\* C26, the case: one thread is executing the refresh while another thread
\* has called volume_refresh_bootmap and waits for the lock
C26_Witness ==
    \E t, u \in Threads :
        /\ t # u
        /\ th[t].pc = "bootmap" /\ lock.owner = t
        /\ th[u].op = "refresh" /\ th[u].pc = "lock_acquire"

(***************************************************************************)
(* C24, C25: the WWPNs of a connector                                      *)
(***************************************************************************)
\* what the inventory reports for the devices: fa00 has an NPIV and a
\* physical port, fa02 and fb02 have neither, the others a physical port
HasNpiv == {"fa00"}
HasPhysical == {"fa00", "fa01", "fb00", "fb01"}

\* the WWPN a device is expected to resolve to
ExpectedWwpn(f) ==
    IF f \in HasNpiv THEN NpivPort(f)
    ELSE IF f \in HasPhysical THEN PhysicalPort(f)
    ELSE ""

\* get_volume_connector has looked up the WWPNs of its devices
WwpnsLooked(t) ==
    /\ Done(t) /\ th[t].op = "connector"
    /\ th[t].fcps # <<>>
    /\ \A f \in Range(th[t].fcps) : fcp_pool[f] # Absent

\* C24: every device of the pool resolves to its NPIV port when it has one,
\* else to its physical port when it has one, else to none; a device that
\* resolves to none does not make get_volume_connector raise and is only
\* left out of the returned WWPN list
C24_WwpnPrecedence ==
    \A t \in Threads :
        WwpnsLooked(t) =>
            LET found == SelectSeq(th[t].fcps,
                                   LAMBDA f : ExpectedWwpn(f) # "")
            IN  /\ th[t].result # "raised"
                /\ th[t].wwpns =
                      IF th[t].result = "ok"
                      THEN [k \in 1..Len(found) |-> ExpectedWwpn(found[k])]
                      ELSE <<>>
                /\ th[t].result = "empty" <=> found = <<>>

\* C24, the case: a connector was returned for a device with both ports and
\* a device with none; its WWPN list holds the NPIV port only
C24_Witness ==
    \E t \in Threads :
        /\ WwpnsLooked(t) /\ th[t].result = "ok"
        /\ \E f, g \in Range(th[t].fcps) :
              /\ f \in HasNpiv /\ f \in HasPhysical
              /\ g \notin HasNpiv \cup HasPhysical
        /\ th[t].wwpns = <<"c05076a">>

\* C25: in every non-empty connector, each key of phy_to_virt_initiators is
\* a WWPN of the connector's wwpns list, and its value is the physical WWPN
\* of the device that WWPN was resolved from
C25_InitiatorMapWellFormed ==
    \A t \in Threads :
        (Done(t) /\ th[t].op = "connector" /\ th[t].result = "ok") =>
            \A k \in DOMAIN th[t].phy_virt_wwpn_map :
                /\ k \in Range(th[t].wwpns)
                /\ \E f \in Range(th[t].fcps) :
                      /\ ExpectedWwpn(f) = k
                      /\ th[t].phy_virt_wwpn_map[k] = PhysicalPort(f)

(***************************************************************************)
(* C27: detach against an absent guest                                     *)
(***************************************************************************)
\* a detach that is neither for a root volume nor connections-only has
\* ended, and check_userid_exist had found no guest
AbsentGuestDetach(t) ==
    /\ Done(t) /\ th[t].op = "detach"
    /\ ~th[t].is_root_volume /\ ~th[t].update_connections_only
    /\ th[t].userid_exist = "no"

\* the count left by n decrements of the count c, none below zero
Decremented(c, n) == IF c > n THEN c - n ELSE 0

\* C27: a detach (not root volume, not connections-only) for a guest that
\* does not exist decrements the usage count of every device of the request
\* (a count of zero stays zero), issues no guest-side deconfiguration and no
\* undedicate, and returns without raising
C27_AbsentGuestDetach ==
    \A t \in Threads :
        AbsentGuestDetach(t) =>
            /\ th[t].result = "ok" /\ th[t].error = "none"
            /\ th[t].calls = <<>>
            /\ dedicated = th[t].preDedicated
            /\ \A f \in Devices :
                  /\ Exists(db, f) <=> Exists(th[t].pre, f)
                  /\ ConnOrZero(db, f) =
                        Decremented(ConnOrZero(th[t].pre, f),
                                    Mult(th[t].fcps, f))

\* C27, the case: such a detach has ended for a device that was in use and
\* still dedicated to the guest
C27_Witness ==
    \E t \in Threads, f \in Devices :
        /\ AbsentGuestDetach(t)
        /\ f \in Range(th[t].fcps)
        /\ ConnOrZero(th[t].pre, f) = 1 /\ ConnOrZero(db, f) = 0
        /\ dedicated[f] = th[t].assigner

(***************************************************************************)
(* C28: devices that were already detached are not rolled back             *)
(***************************************************************************)
\* the devices of the request whose count was zero, or that had no record,
\* when the detach was called
AlreadyDetached(t) ==
    {f \in Range(th[t].fcps) : ConnOrZero(th[t].pre, f) = 0}

\* C28: when the count of a device was already zero before the decrement
\* step of a detach, the decrement step does not fail: the detach raises
\* only for a failure of its deconfigure/undedicate steps; and after such a
\* failure and the rollback the count of this device is still zero
C28_AlreadyDetachedNotRolledBack ==
    \A t \in Threads :
        (Done(t) /\ th[t].op = "detach" /\ th[t].result = "raised") =>
            \A f \in AlreadyDetached(t) :
                /\ th[t].error \in {"deconfig", "undedicate"}
                /\ ConnOrZero(db, f) = 0

\* C28, the case: a detach of a device with count zero and of a device in
\* use has failed and rolled back; the usage of the second one is restored
C28_Witness ==
    \E t \in Threads, f, g \in Devices :
        /\ Done(t) /\ th[t].op = "detach" /\ th[t].result = "raised"
        /\ f \in AlreadyDetached(t) /\ Exists(th[t].pre, f)
        /\ ConnOrZero(db, f) = 0
        /\ g \in Range(th[t].fcps)
        /\ ConnOrZero(th[t].pre, g) = 1 /\ ConnOrZero(db, g) = 1

(***************************************************************************)
(* C30: the order of the steps of an attach                                *)
(***************************************************************************)
\* the positions of the calls of one kind in a request log
CallsAt(calls, kind) == {k \in DOMAIN calls : calls[k].kind = kind}

\* the usage of every device of the request has been registered, in order
AllRegistered(t) ==
    /\ Len(th[t].registered) = Len(th[t].fcps)
    /\ \A i \in DOMAIN th[t].fcps : th[t].registered[i].fcp = th[t].fcps[i]

\* C30: in a non-root attach, dedicate is issued only for devices for which
\* the registration step reported first use, every dedicate happens after
\* the usage of all devices of the request has been registered, and the
\* single configuration call is issued only after all the dedicates, which
\* have all succeeded
C30_AttachStepOrder ==
    \A t \in Threads :
        (th[t].op = "attach" /\ ~th[t].is_root_volume) =>
            LET calls == th[t].calls
            IN  /\ \A k \in CallsAt(calls, "dedicate") :
                      /\ \E i \in DOMAIN th[t].registered :
                            /\ th[t].registered[i].fcp = calls[k].fcp
                            /\ th[t].registered[i].new
                      /\ AllRegistered(t)
                /\ Cardinality(CallsAt(calls, "config")) <= 1
                /\ \A k \in CallsAt(calls, "config") :
                      /\ AllRegistered(t)
                      /\ \A j \in CallsAt(calls, "dedicate") :
                            j < k /\ calls[j].outcome = "ok"

\* C30, the case: an attach of a device used for the first time and of a
\* device already in use has dedicated the first one only and has then
\* configured the guest
C30_Witness ==
    \E t \in Threads, f, g \in Devices :
        /\ Done(t) /\ th[t].op = "attach" /\ ~th[t].is_root_volume
        /\ th[t].result = "ok"
        /\ th[t].fcps = <<f, g>> /\ f # g
        /\ ConnOrZero(th[t].pre, f) = 0 /\ ConnOrZero(th[t].pre, g) = 1
        /\ Len(th[t].calls) = 2
        /\ th[t].calls[1] = Call("dedicate", f, "ok", 0)
        /\ th[t].calls[2].kind = "config"

(***************************************************************************)
(* C29: attach and detach always finish                                    *)
(***************************************************************************)
\* the request has begun its dedicate/configure or deconfigure/undedicate
\* steps, or is rolling them back
InSteps(t) ==
    /\ th[t].op \in {"attach", "detach"}
    /\ th[t].pc \in {"dedicate", "config", "rb_dec", "rb_unres",
                     "det_remove", "det_unded", "det_rb", "det_readd"}

\* the request has ended: it has returned, or has raised
Ended(t) == Done(t) /\ th[t].result \in {"ok", "raised"}

\* C29: when every call to the store and to the transport returns, an
\* attach or detach that has begun its dedicate/configure or
\* deconfigure/undedicate steps eventually ends, by returning or by raising
C29_AttachDetachFinish == \A t \in Threads : InSteps(t) ~> Ended(t)

\* C29, the case: an attach whose configuration call failed has ended by
\* raising, after its rollback has undedicated the device
C29_Witness ==
    \E t \in Threads :
        /\ Ended(t) /\ th[t].op = "attach" /\ th[t].result = "raised"
        /\ th[t].error = "config"
        /\ \E k \in DOMAIN th[t].calls : th[t].calls[k].kind = "undedicate"

(***************************************************************************)
(* C31  Attach to an unknown guest changes nothing.                        *)
(***************************************************************************)
\* an attach that is not for a root volume and whose guest was not found
UnknownGuestAttach(t) ==
    /\ th[t].op = "attach"
    /\ ~th[t].is_root_volume
    /\ th[t].userid_exist = "no"

\* C31: an attach that is not for a root volume and names a guest the host
\* does not know has raised the not-found error as soon as it is called: it
\* has registered no usage and made no call to the transport, and the step
\* that called it left the store, the pool and the dedications as they were
C31_UnknownGuestAttachChangesNothing ==
    [][\A t \in Threads :
          UnknownGuestAttach(t)' /\ th[t].pc = "idle" =>
              /\ th'[t].pc = "done"
              /\ th'[t].result = "raised"
              /\ th'[t].error = "notfound"
              /\ th'[t].registered = <<>>
              /\ th'[t].calls = <<>>
              /\ db' = db
              /\ dedicated' = dedicated
              /\ fcp_pool' = fcp_pool
              /\ fcp_path_mapping' = fcp_path_mapping]_vars

\* an attach of an unknown guest was refused while the store held a record
\* in use and a device was dedicated
C31_Witness ==
    \E t \in Threads :
        /\ UnknownGuestAttach(t)
        /\ Done(t)
        /\ th[t].error = "notfound"
        /\ \E f \in Devices : Exists(db, f) /\ db[f].connections > 0
        /\ \E f \in Devices : dedicated[f] # NoAssigner

(***************************************************************************)
(* C32  Concurrent allocations do not collide.                             *)
(***************************************************************************)
\* a reserving get_volume_connector that has returned a connector for a
\* guest that held no allocated device when it was called
Allocated(t) ==
    /\ Done(t)
    /\ th[t].op = "connector"
    /\ th[t].reserve
    /\ th[t].result = "ok"
    /\ DbAllocated(th[t].pre, th[t].assigner) = {}

\* C32: when two reserving get_volume_connector calls for two different
\* guests, neither of which held allocated devices, have both returned, the
\* two device lists share no device and every device returned is assigned to
\* the guest that received it
C32_ConcurrentAllocationsDisjoint ==
    \A t \in Threads, u \in Threads :
        /\ Allocated(t)
        /\ Allocated(u)
        /\ th[t].assigner # th[u].assigner
        => /\ Range(th[t].fcps) \cap Range(th[u].fcps) = {}
           /\ \A f \in Range(th[t].fcps) :
                  Exists(db, f) /\ db[f].assigner = th[t].assigner

(***************************************************************************)
(* C33  A reservation held for another guest is not taken over by attach.  *)
(***************************************************************************)
\* thread t takes a step of an attach
AttachStep(t) == th'[t] # th[t] /\ th'[t].op = "attach"

\* device f is reserved for a guest other than a and has no connection
ReservedForOther(d, f, a) ==
    /\ Exists(d, f)
    /\ d[f].reserved
    /\ d[f].connections = 0
    /\ d[f].assigner \notin {NoAssigner, a}

\* C33: no step of an attach by guest B changes the assigner of a device
\* that is reserved, without connections, for another guest A
C33_ReservationNotTakenOver ==
    [][\A t \in Threads, f \in Devices :
          AttachStep(t) /\ ReservedForOther(db, f, th'[t].assigner) =>
              Exists(db', f) /\ db'[f].assigner = db[f].assigner]_vars

(***************************************************************************)
(* C34  No double dedicate.                                                *)
(***************************************************************************)
\* thread t issues dedicate for device f in this step
DedicateIssued(t, f) ==
    /\ Len(th'[t].calls) = Len(th[t].calls) + 1
    /\ th'[t].calls[Len(th'[t].calls)].kind = "dedicate"
    /\ th'[t].calls[Len(th'[t].calls)].fcp = f

\* C34: dedicate is never issued for a device that is dedicated to the
\* guest of the request at that moment
C34_NoDoubleDedicate ==
    [][\A t \in Threads, f \in Devices :
          DedicateIssued(t, f) => dedicated[f] # th[t].assigner]_vars

(***************************************************************************)
(* C35  Connector lookup keeps reservations of devices in use.             *)
(***************************************************************************)
\* thread t takes a step of a get_volume_connector that is not reserving
LookupStep(t) ==
    /\ th'[t] # th[t]
    /\ th'[t].op = "connector"
    /\ ~th'[t].reserve

\* C35: a step of get_volume_connector(assigner, reserve=False) clears the
\* reserved flag of a device only when the connection count of the device
\* is 0 at that step; a reserved device with connections stays reserved
C35_LookupKeepsReservationsInUse ==
    [][\A t \in Threads, f \in Devices :
          LookupStep(t) /\ DbIsReserved(db, f) =>
              \/ DbIsReserved(db', f)
              \/ DbConnections(db, f) = 0]_vars

\* a lookup has returned the connector of two reserved devices: the one
\* without connections is no longer reserved, the one in use still is
C35_Witness ==
    \E t \in Threads, f \in Devices, g \in Devices :
        /\ Done(t)
        /\ th[t].op = "connector"
        /\ ~th[t].reserve
        /\ th[t].result = "ok"
        /\ {f, g} \subseteq Range(th[t].fcps)
        /\ DbIsReserved(th[t].pre, f) /\ DbIsReserved(th[t].pre, g)
        /\ DbConnections(db, f) > 0 /\ DbIsReserved(db, f)
        /\ DbConnections(db, g) = 0 /\ ~DbIsReserved(db, g)

(***************************************************************************)
(* C36  An empty connector means nothing was claimed.                      *)
(***************************************************************************)
\* a reserving get_volume_connector that has returned the empty connector
EmptyConnector(t) ==
    /\ Done(t)
    /\ th[t].op = "connector"
    /\ th[t].reserve
    /\ th[t].result = "empty"

\* the assigner, the reserved flag and the connection count of a record
Claim(r) == <<r.assigner, r.reserved, r.connections>>

\* C36: when a reserving get_volume_connector has returned the empty
\* connector, every record the store held before the call and still holds
\* has the assigner, the reserved flag and the connection count it had
C36_EmptyConnectorClaimsNothing ==
    \A t \in Threads :
        EmptyConnector(t) =>
            \A f \in Devices :
                Exists(th[t].pre, f) /\ Exists(db, f) =>
                    Claim(db[f]) = Claim(th[t].pre[f])

(***************************************************************************)
(* C37  Synchronization never drops a device in use.                       *)
(***************************************************************************)
\* thread t runs init_fcp in this step: the first step of an attach or of
\* a get_volume_connector that is not refused
SyncPass(t) ==
    /\ th[t].pc = "idle"
    /\ th'[t].pc \in {"add_read", "conn_query"}

\* C37: a synchronisation pass deletes no record whose connection count is
\* greater than zero, whether or not the device is in the pool
C37_SyncKeepsDevicesInUse ==
    [][\A t \in Threads, f \in Devices :
          SyncPass(t) /\ Exists(db, f) /\ DbConnections(db, f) > 0 =>
              Exists(db', f)]_vars

============================================================================
